---- MODULE Spec2Model ----
(***************************************************************************)
(* A model of splat's incremental gallery build (src/main.rs, process.rs,  *)
(* metadata.rs): discovery of the collection tree, the staleness filter,   *)
(* the parallel image pipeline with its progress channel, and the          *)
(* rendering walk.                                                         *)
(*                                                                         *)
(* Paths are sequences of path segments.  The input root is <<"input">>,   *)
(* the output root is config.toml.output (cfgOutput).  The filesystem is   *)
(* the input tree (dirs, files, srcMtime, md) and the output tree (out).   *)
(***************************************************************************)
EXTENDS Integers, Sequences, FiniteSets, TLC

\* ------------------------------------------------------------------ bounds

\* Most files an input tree holds.
MaxFiles == 2
\* Most source-file touches in one behaviour (the clock ticks once a touch).
MaxClock == 1
\* Most runs of the program (build) in one behaviour.
MaxBuilds == 2
\* Most directories of an input tree that hold an index.md.
MaxDescribed == 1
\* Most lines of a description file handed to from_str on its own.
MaxLines == 3

\* --------------------------------------------------------- input universe

InputRoot == <<"input">>

\* The candidate values of config.toml.output: a path of one component and
\* a path of two.
OutputRoots == { <<"output">>, <<"site", "output">> }

\* The orders in which read_dir may list the entries of a directory.
ListingOrders == { "ascending", "descending" }

\* The candidate contents of an index.md: no header ("plain"), a Thumbnail
\* header, a Title header; or the file cannot be read ("unreadable").
DescriptionKinds ==
    { "plain", "unreadable", "thumbnail_y", "thumbnail_n", "title_b" }

\* The candidate directories of an input tree, relative to the input root.
DirU == { <<>>, <<"a">>, <<"thumbnails">>, <<"a", "b">> }

\* The candidate files of an input tree, relative to the input root.
FileU ==
    { <<"x.jpg">>, <<"y.jpg">>, <<"w.JPEG">>, <<"z.Jpg">>,
      <<"a", "x.jpg">>, <<"a", "y.jpg">>, <<"a", "n.txt">>,
      <<"thumbnails", "x.jpg">>,
      <<"a", "b", "x.jpg">> }

\* Byte order of the names used, as str::cmp / Path::cmp order them.
NameRank ==
    [ n \in { "a", "b", "n.txt", "thumbnails", "w.JPEG", "x.jpg", "y.jpg", "z.Jpg" } |->
        CASE n = "a" -> 1
          [] n = "b" -> 2
          [] n = "n.txt" -> 3
          [] n = "thumbnails" -> 4
          [] n = "w.JPEG" -> 5
          [] n = "x.jpg" -> 6
          [] n = "y.jpg" -> 7
          [] n = "z.Jpg" -> 8 ]

\* Path::extension of a file name.
Extension(n) ==
    CASE n = "x.jpg" -> "jpg"
      [] n = "y.jpg" -> "jpg"
      [] n = "n.txt" -> "txt"
      [] n = "w.JPEG" -> "JPEG"
      [] n = "z.Jpg" -> "Jpg"
      [] OTHER -> ""

\* Dimensions of every source image (data/test.jpg of the tests).
SrcWidth == 900
SrcHeight == 600
\* config.toml.thumbnail of the tests' fixture.
ThumbWidth == 300
ThumbHeight == 200
\* config.toml.resize of tests::process_resize.
ResizeWidth == 600
ResizeHeight == 400

VARIABLES
    cfgOutput,  \* config.toml.output
    listing,    \* the order in which read_dir lists a directory
    dirs,       \* directories of the input tree (relative paths, root = <<>>)
    files,      \* regular files of the input tree (relative paths)
    srcMtime,   \* modification time of every input file
    md,         \* per directory: index.md is "none" or one of DescriptionKinds
    resize,     \* config.toml.resize is Some (TRUE) or None (FALSE)
    out,        \* output tree: path -> [mtime, w, h] for every existing file
    clock,      \* filesystem time
    pc,         \* main thread: "idle", "processing", "returned"
    result,     \* what build returned: "none", "ok", "err"
    tree,       \* what Collection::new returned for the input root
    submitted,  \* items of the current build that need_update, in order
    work,       \* per submitted item (by index): "todo","thumbed","ok","err"
    attempts,   \* per submitted item: number of calls of process
    chan,       \* the progress channel: messages sent and not yet received
    sent,       \* number of messages ever sent in the current build
    consumer,   \* display_progress thread: "none","running","finished","killed"
    loopI,      \* display_progress: the loop index i
    recvd,      \* display_progress: messages received
    pages,      \* index.html files written by the current build, in order
    crumbs,     \* build's breadcrumbs vector, << >> before it is created
    wrote,      \* output image paths written by the current build
    builds,     \* number of builds started
    prev,       \* the previous build: [ran, clean, pages, result]
    touched,    \* sources touched since the previous build returned
    mdText,     \* from_str called on its own: the lines of its content
    parsed      \* from_str called on its own: what it returned

\* config.toml.output
OutputRoot == cfgOutput

vars ==
    << cfgOutput, listing, crumbs, dirs, files, srcMtime, md, resize, out, clock, pc, result, tree,
       submitted, work, attempts, chan, sent, consumer, loopI, recvd, pages, wrote,
       builds, prev, touched, mdText, parsed >>

\* ------------------------------------------------------------ path algebra

\* Path::parent
Parent(p) == SubSeq(p, 1, Len(p) - 1)
\* Path::file_name
FileName(p) == p[Len(p)]
\* Path::join
Join(p, q) == p \o q
\* Path::strip_prefix(base), for a path under base
StripPrefix(p, base) == SubSeq(p, Len(base) + 1, Len(p))

\* The absolute path of an input file or directory.
SourcePath(rel) == Join(InputRoot, rel)

\* A set of names as a sequence in ascending byte order.
RECURSIVE SortNames(_)
SortNames(S) ==
    IF S = {} THEN << >>
    ELSE LET m == CHOOSE x \in S : \A y \in S : NameRank[x] <= NameRank[y]
         IN  << m >> \o SortNames(S \ { m })

\* A sequence back to front.
Reverse(s) == [ i \in 1 .. Len(s) |-> s[Len(s) + 1 - i] ]

\* read_dir(current): the entries of a directory in listing order, which
\* the filesystem chooses.
ReadDir(d) ==
    LET ascending ==
            SortNames({ FileName(e) :
                e \in { x \in dirs \cup files : Len(x) = Len(d) + 1 /\ Parent(x) = d } })
    IN  IF listing = "ascending" THEN ascending ELSE Reverse(ascending)

\* Path::exists, for input and output paths.
Exists(p) ==
    \/ p \in DOMAIN out
    \/ /\ Len(p) >= 1
       /\ p[1] = "input"
       /\ StripPrefix(p, InputRoot) \in dirs \cup files

\* Path::metadata()?.modified()? of an existing path.
Modified(p) ==
    IF p \in DOMAIN out THEN out[p].mtime
    ELSE srcMtime[StripPrefix(p, InputRoot)]

\* --------------------------------------------------------------- metadata

\* metadata::path_to_string: the file name of a directory path.
PathToString(p) == IF Len(p) = 0 THEN "" ELSE FileName(p)

\* The value of the Thumbnail key of an index.md, "" when it has none.
ThumbnailKey(kind) ==
    CASE kind = "thumbnail_y" -> "y.jpg"
      [] kind = "thumbnail_n" -> "n.txt"
      [] OTHER -> ""

\* The value of the Title key of an index.md, "" when it has none.
TitleKey(kind) ==
    CASE kind = "title_b" -> "b"
      [] kind = "title_a" -> "a"
      [] OTHER -> ""

\* The lines a description file is made of: two header lines, a line of
\* text, an empty line, and a line of text that holds a colon.
LineU == { "Title: b", "Thumbnail: y.jpg", "text", "", "see Title: a" }

\* The lines of an index.md of each kind.
Content(kind) ==
    CASE kind = "plain" -> << "text" >>
      [] kind = "thumbnail_y" -> << "Thumbnail: y.jpg" >>
      [] kind = "thumbnail_n" -> << "Thumbnail: n.txt" >>
      [] kind = "title_b" -> << "Title: b" >>
      [] kind = "title_a" -> << "Title: a" >>

\* EXPRESSION.captures(line) for ([[:alpha:]]+): (.+): the leftmost match
\* anywhere in the line, caps[1] the letters before ": " and caps[2] the
\* rest of the line.
Captures(line) ==
    CASE line = "Title: b" -> [ some |-> TRUE, key |-> "Title", value |-> "b" ]
      [] line = "Title: a" -> [ some |-> TRUE, key |-> "Title", value |-> "a" ]
      [] line = "Thumbnail: y.jpg" ->
            [ some |-> TRUE, key |-> "Thumbnail", value |-> "y.jpg" ]
      [] line = "Thumbnail: n.txt" ->
            [ some |-> TRUE, key |-> "Thumbnail", value |-> "n.txt" ]
      [] line = "see Title: a" -> [ some |-> TRUE, key |-> "Title", value |-> "a" ]
      [] OTHER -> [ some |-> FALSE, key |-> "", value |-> "" ]

\* The loop of from_str while matching_phase holds: the number of leading
\* lines that match.
RECURSIVE MatchingPhase(_)
MatchingPhase(content) ==
    IF content = << >> THEN 0
    ELSE IF Captures(Head(content)).some THEN 1 + MatchingPhase(Tail(content))
    ELSE 0

\* keys.remove(key) after the keys of the lines were inserted in order: the
\* value of the last line with that key, "" standing for None.
RECURSIVE KeysRemove(_, _)
KeysRemove(header, key) ==
    IF header = << >> THEN ""
    ELSE LET caps == Captures(header[Len(header)])
         IN  IF caps.key = key THEN caps.value
             ELSE KeysRemove(SubSeq(header, 1, Len(header) - 1), key)

\* html::push_html(Parser::new(description)) for lines of plain text: the
\* paragraphs, which empty lines separate, each the lines it is made of.
RECURSIVE Paragraphs(_, _)
Paragraphs(lines, current) ==
    IF lines = << >>
    THEN IF current = << >> THEN << >> ELSE << current >>
    ELSE IF Head(lines) = ""
    THEN IF current = << >> THEN Paragraphs(Tail(lines), << >>)
         ELSE << current >> \o Paragraphs(Tail(lines), << >>)
    ELSE Paragraphs(Tail(lines), Append(current, Head(lines)))

PushHtml(description) == Paragraphs(description, << >>)

\* metadata::from_str(path, content), content as its lines.  The lines of
\* the matching phase set the keys, every line from the first that does not
\* match on is description.  The Thumbnail key is joined to the directory
\* and kept when that path exists; thumbnail = << >> stands for None.
FromStr(path, content) ==
    LET n == MatchingPhase(content)
        header == SubSeq(content, 1, n)
        description == SubSeq(content, n + 1, Len(content))
        named == KeysRemove(header, "Thumbnail")
        title == KeysRemove(header, "Title")
    IN  [ ok |-> TRUE,
          description |-> PushHtml(description),
          title |-> IF title # "" THEN title ELSE PathToString(path),
          thumbnail |-> IF named # "" /\ Exists(Join(path, << named >>))
                        THEN Join(path, << named >>) ELSE << >> ]

\* Metadata::from_path.  thumbnail = << >> stands for None.
MetadataFromPath(d) ==
    IF md[d] = "none"
    THEN [ ok |-> TRUE, description |-> << >>,
           title |-> PathToString(SourcePath(d)), thumbnail |-> << >> ]
    ELSE IF md[d] = "unreadable"
    THEN [ ok |-> FALSE, description |-> << >>, title |-> "", thumbnail |-> << >> ]
    ELSE FromStr(SourcePath(d), Content(md[d]))

\* ------------------------------------------------------------------ items

\* Item::new
ItemNew(path) ==
    LET to == Join(OutputRoot, StripPrefix(path, InputRoot))
    IN  [ from |-> path,
          to |-> to,
          thumbnail |-> Join(Join(Parent(to), << "thumbnails" >>),
                             << FileName(path) >>) ]

\* The filter of Collection::new that makes a directory entry an Item.
IsImageFile(rel) ==
    /\ rel \in files
    /\ Extension(FileName(rel)) \in { "JPG", "jpg", "JPEG", "jpeg" }

\* A mutant of is_older: not strictly older, but older or of the same age.
IsOlderOrEqual(first, second) ==
    IF Exists(first) /\ Exists(second)
    THEN [ ok |-> TRUE, val |-> Modified(first) <= Modified(second) ]
    ELSE [ ok |-> FALSE, val |-> FALSE ]

\* process::is_older, a Result<bool>: Err when either path has no metadata.
IsOlder(first, second) ==
    IF Exists(first) /\ Exists(second)
    THEN [ ok |-> TRUE, val |-> Modified(first) < Modified(second) ]
    ELSE [ ok |-> FALSE, val |-> FALSE ]

\* Result<bool>::unwrap_or_default
UnwrapOrDefault(r) == IF r.ok THEN r.val ELSE FALSE

\* Item::needs_update
NeedsUpdate(item) ==
    \/ ~Exists(item.to)
    \/ UnwrapOrDefault(IsOlder(item.to, item.from))
    \/ ~Exists(item.thumbnail)

\* ------------------------------------------------------------- discovery

\* A mutant of the thumbnail choice: the first item before the override.
ThumbnailItemFirst(metadata, items, collections) ==
    IF Len(items) > 0 THEN items[1].from
    ELSE IF metadata.thumbnail # << >> THEN metadata.thumbnail
    ELSE IF Len(collections) > 0 THEN collections[1].thumbnail
    ELSE << >>

\* The thumbnail of a collection: metadata.thumbnail, or else the source of
\* items.first(), or else the thumbnail of collections.first(); << >> when
\* there is none ("No thumbnail path").
Thumbnail(metadata, items, collections) ==
    IF metadata.thumbnail # << >> THEN metadata.thumbnail
    ELSE IF Len(items) > 0 THEN items[1].from
    ELSE IF Len(collections) > 0 THEN collections[1].thumbnail
    ELSE << >>

\* Collection::new(current) for the directory d (relative to the input
\* root).  tag is "some" (Ok(Some)), "none" (Ok(None)) or "err" (Err).
RECURSIVE CollectionNew(_)
CollectionNew(d) ==
    LET names == ReadDir(d)
        subdirs == SelectSeq(names, LAMBDA n : Join(d, << n >>) \in dirs)
        results == [ i \in 1 .. Len(subdirs) |->
                        CollectionNew(Join(d, << subdirs[i] >>)) ]
        \* .filter_map(Result::ok).flatten(): Err and None are both dropped
        kept == SelectSeq(results, LAMBDA r : r.tag = "some")
        collections == [ i \in 1 .. Len(kept) |-> kept[i].node ]
        imgs == SelectSeq(names, LAMBDA n : IsImageFile(Join(d, << n >>)))
        items == [ i \in 1 .. Len(imgs) |->
                        ItemNew(SourcePath(Join(d, << imgs[i] >>))) ]
        metadata == MetadataFromPath(d)
        thumbnail == Thumbnail(metadata, items, collections)
    IN  IF Len(items) = 0 /\ Len(collections) = 0 THEN [ tag |-> "none" ]
        ELSE IF ~metadata.ok THEN [ tag |-> "err" ]
        ELSE IF thumbnail = << >> THEN [ tag |-> "err" ]
        ELSE [ tag |-> "some",
               node |-> [ path |-> SourcePath(d),
                          collections |-> collections,
                          items |-> items,
                          metadata |-> metadata,
                          thumbnail |-> thumbnail ] ]

\* Collection::items: the items of this collection, then of each child.
RECURSIVE Items(_)
RECURSIVE ItemsOfAll(_)
ItemsOfAll(cs) ==
    IF cs = << >> THEN << >> ELSE Items(Head(cs)) \o ItemsOfAll(Tail(cs))
Items(c) == c.items \o ItemsOfAll(c.collections)

\* -------------------------------------------------------------- rendering

\* breadcrumbs_to_links: a link is [title, path]; a path is "." followed by
\* "/.." segments, kept as the sequence of its segments.
RECURSIVE DotDots(_)
DotDots(n) == IF n = 0 THEN << >> ELSE << ".." >> \o DotDots(n - 1)

\* A mutant of breadcrumbs_to_links: the trail is walked front to back.
BreadcrumbsToLinksForward(breadcrumbs) ==
    [ i \in 1 .. Len(breadcrumbs) |->
        [ title |-> breadcrumbs[i],
          path |-> << "." >> \o DotDots(i - 1) ] ]

BreadcrumbsToLinks(breadcrumbs) ==
    [ i \in 1 .. Len(breadcrumbs) |->
        [ title |-> breadcrumbs[i],
          path |-> << "." >> \o DotDots(Len(breadcrumbs) - i) ] ]

\* output_path_to_root: one ".." for each component of output but the first.
OutputPathToRoot(output) == DotDots(Len(output) - 1)

\* Image::new: image_dimensions(&item.to)? fails when the file is missing.
ImageNew(item) ==
    IF ~Exists(item.to) THEN [ ok |-> FALSE ]
    ELSE [ ok |-> TRUE,
           path |-> FileName(item.to),
           thumbnail |-> << "thumbnails", FileName(item.thumbnail) >>,
           width |-> out[item.to].w,
           height |-> out[item.to].h ]

\* Child::from
ChildFrom(collection) ==
    LET path == Parent(collection.path)
        filename == FileName(collection.thumbnail)
    IN  [ ok |-> TRUE,
          thumbnail |-> Join(Join(Parent(StripPrefix(collection.thumbnail, path)),
                                  << "thumbnails" >>), << filename >>),
          path |-> FileName(collection.path),
          title |-> collection.metadata.title ]

\* A stable ascending sort of a sequence of [k, v] by the integer key k.
RECURSIVE InsertByKey(_, _)
InsertByKey(x, s) ==
    IF s = << >> THEN << x >>
    ELSE IF x.k < Head(s).k THEN << x >> \o s
    ELSE << Head(s) >> \o InsertByKey(x, Tail(s))

RECURSIVE SortByKey(_)
SortByKey(s) ==
    IF s = << >> THEN << >>
    ELSE InsertByKey(s[Len(s)], SortByKey(SubSeq(s, 1, Len(s) - 1)))

\* A mutant of the sort of the images: they stay in the order of the items.
ImagesAsListed(images) == images

\* images.sort_by(|a, b| a.thumbnail.cmp(&b.thumbnail))
SortImages(images) ==
    LET keyed == [ i \in 1 .. Len(images) |->
                     [ k |-> NameRank[images[i].thumbnail[2]], v |-> images[i] ] ]
        sorted == SortByKey(keyed)
    IN  [ i \in 1 .. Len(sorted) |-> sorted[i].v ]

\* A mutant of the sort of the children: they stay in the order of the
\* child collections.
ChildrenAsListed(children) == children

\* children.sort_by(|a, b| b.title.cmp(a.title))
SortChildren(children) ==
    LET keyed == [ i \in 1 .. Len(children) |->
                     [ k |-> 0 - NameRank[children[i].title], v |-> children[i] ] ]
        sorted == SortByKey(keyed)
    IN  [ i \in 1 .. Len(sorted) |-> sorted[i].v ]

\* write_html(config, collection, breadcrumbs, output): the pages written,
\* in order, whether the call returned Ok, and the breadcrumbs vector it
\* leaves.  A page is [dir, trail, context], trail being the breadcrumbs
\* vector at the time the context is assembled.  A child's name is pushed
\* before the recursive call and removed after it; a failed call returns
\* at once.
RECURSIVE WriteHtml(_, _, _)
RECURSIVE WriteChildren(_, _, _)

\* A mutant of the loop over the children: a child is written into the
\* output directory of its parent.
WriteChildrenInPlace(cs, trail, output) ==
    IF cs = << >> THEN [ ok |-> TRUE, pages |-> << >>, breadcrumbs |-> trail ]
    ELSE LET subdir == FileName(Head(cs).path)
             first == WriteHtml(Head(cs), Append(trail, subdir), output)
         IN  IF ~first.ok THEN first
             ELSE LET popped == SubSeq(first.breadcrumbs, 1,
                                       Len(first.breadcrumbs) - 1)
                      rest == WriteChildren(Tail(cs), popped, output)
                  IN  [ ok |-> rest.ok,
                        pages |-> first.pages \o rest.pages,
                        breadcrumbs |-> rest.breadcrumbs ]

\* A mutant of the loop over the children: the name pushed is not removed.
WriteChildrenNoRemove(cs, trail, output) ==
    IF cs = << >> THEN [ ok |-> TRUE, pages |-> << >>, breadcrumbs |-> trail ]
    ELSE LET subdir == FileName(Head(cs).path)
             first == WriteHtml(Head(cs), Append(trail, subdir),
                                Join(output, << subdir >>))
         IN  IF ~first.ok THEN first
             ELSE LET rest == WriteChildren(Tail(cs), first.breadcrumbs, output)
                  IN  [ ok |-> rest.ok,
                        pages |-> first.pages \o rest.pages,
                        breadcrumbs |-> rest.breadcrumbs ]

WriteChildren(cs, trail, output) ==
    IF cs = << >> THEN [ ok |-> TRUE, pages |-> << >>, breadcrumbs |-> trail ]
    ELSE LET subdir == FileName(Head(cs).path)
             first == WriteHtml(Head(cs), Append(trail, subdir),
                                Join(output, << subdir >>))
         IN  IF ~first.ok THEN first
             ELSE LET popped == SubSeq(first.breadcrumbs, 1,
                                       Len(first.breadcrumbs) - 1)
                      rest == WriteChildren(Tail(cs), popped, output)
                  IN  [ ok |-> rest.ok,
                        pages |-> first.pages \o rest.pages,
                        breadcrumbs |-> rest.breadcrumbs ]

WriteHtml(collection, trail, output) ==
    LET below == WriteChildren(collection.collections, trail, output)
        images == [ i \in 1 .. Len(collection.items) |->
                      ImageNew(collection.items[i]) ]
        children == [ i \in 1 .. Len(collection.collections) |->
                        ChildFrom(collection.collections[i]) ]
    IN  IF ~below.ok THEN below
        ELSE IF \E i \in 1 .. Len(images) : ~images[i].ok
        THEN [ ok |-> FALSE, pages |-> below.pages,
               breadcrumbs |-> below.breadcrumbs ]
        ELSE IF \E i \in 1 .. Len(children) : ~children[i].ok
        THEN [ ok |-> FALSE, pages |-> below.pages,
               breadcrumbs |-> below.breadcrumbs ]
        ELSE [ ok |-> TRUE,
               breadcrumbs |-> below.breadcrumbs,
               pages |-> Append(below.pages,
                   [ dir |-> output,
                     trail |-> below.breadcrumbs,
                     context |->
                       [ title |-> collection.metadata.title,
                         description |-> collection.metadata.description,
                         breadcrumbs |-> BreadcrumbsToLinks(below.breadcrumbs),
                         children |-> SortChildren(
                             [ i \in 1 .. Len(children) |->
                                 [ path |-> children[i].path,
                                   thumbnail |-> children[i].thumbnail,
                                   title |-> children[i].title ] ]),
                         images |-> SortImages(
                             [ i \in 1 .. Len(images) |->
                                 [ path |-> images[i].path,
                                   thumbnail |-> images[i].thumbnail,
                                   width |-> images[i].width,
                                   height |-> images[i].height ] ]),
                         theme_url |-> Append(OutputPathToRoot(output), "static") ] ]) ]

\* --------------------------------------------------------------- pipeline

\* The file written by resize(source, dest, width, height) and by copy.
WriteFile(o, p, width, height) ==
    [ q \in DOMAIN o \cup { p } |->
        IF q = p THEN [ mtime |-> clock, w |-> width, h |-> height ] ELSE o[q] ]

\* generate_thumbnail: the thumbnail is resized when missing or older.
ThumbnailNeeded(item) ==
    \/ ~Exists(item.thumbnail)
    \/ IsOlder(item.thumbnail, item.from).val

\* process: Operation::Resize when a resize target is configured, else Copy.
FullWidth == IF resize THEN ResizeWidth ELSE SrcWidth
FullHeight == IF resize THEN ResizeHeight ELSE SrcHeight

\* One message per call of process, sent on the worker's sender clone.
Send(ch, msg) == Append(ch, msg)

\* A mutant of the for_each: no process is started once one has failed.
RunnableUntilFailure(i) ==
    /\ work[i] = "todo"
    /\ \A j \in 1 .. Len(submitted) : work[j] # "err"

\* processes.into_par_iter().for_each: every process is run, whatever the
\* others returned.
Runnable(i) == work[i] = "todo"

\* A mutant of the for_each: the processes are started and not waited for.
PipelineNotAwaited == TRUE

\* for_each returns when no process is left to run and none is running.
PipelineDone ==
    \A i \in 1 .. Len(submitted) : ~Runnable(i) /\ work[i] # "thumbed"

\* The items build hands to the pipeline.
Selected(collection) == SelectSeq(Items(collection), NeedsUpdate)

\* A mutant of the channel: some sender outlives build.
SenderHeld == FALSE

\* Every sender is dropped: the clones with their processes, the original
\* when build returns.
Disconnected == pc # "processing"

\* ------------------------------------------------------------------- Init

PrefixClosed(D) == \A d \in D : d = << >> \/ Parent(d) \in D

\* The candidate source images of the pipeline's input trees: two in the
\* root collection and one in a child collection.
ImageU == { << "x.jpg" >>, << "y.jpg" >>, << "thumbnails", "x.jpg" >> }

\* The state of a process that has not started build yet.
NotStarted ==
    /\ clock = 0
    /\ pc = "idle"
    /\ result = "none"
    /\ tree = [ tag |-> "none" ]
    /\ submitted = << >>
    /\ work = << >>
    /\ attempts = << >>
    /\ chan = << >>
    /\ sent = 0
    /\ consumer = "none"
    /\ loopI = 0
    /\ recvd = 0
    /\ pages = << >>
    /\ crumbs = << >>
    /\ wrote = {}
    /\ builds = 0
    /\ prev = [ ran |-> FALSE, clean |-> FALSE, pages |-> << >> ]
    /\ touched = {}

\* from_str has not been called on its own.
NotParsed ==
    /\ mdText = << >>
    /\ parsed = [ tag |-> "none" ]

\* The pipeline's inputs: at most MaxFiles images of ImageU in their
\* directories, no description file, an empty output tree.
Init ==
    /\ cfgOutput = << "output" >>
    /\ listing = "ascending"
    /\ \E F \in SUBSET ImageU :
          /\ Cardinality(F) <= MaxFiles
          /\ files = F
          /\ dirs = { << >> } \cup { Parent(f) : f \in F }
    /\ srcMtime = [ f \in files |-> 0 ]
    /\ md = [ d \in dirs |-> "none" ]
    /\ resize \in BOOLEAN
    /\ out = << >>
    /\ NotStarted
    /\ NotParsed

\* Discovery's inputs: at most MaxFiles files of FileU in directories of DirU
\* (a directory may be empty, at most MaxDescribed directories hold an
\* index.md, readable or not); or no input root at all.
InitDiscovery ==
    /\ cfgOutput \in OutputRoots
    /\ listing \in ListingOrders
    /\ \E D \in SUBSET DirU, F \in SUBSET FileU :
          /\ Cardinality(F) <= MaxFiles
          /\ PrefixClosed(D)
          /\ \A f \in F : Parent(f) \in D
          /\ dirs = D
          /\ files = F
    /\ srcMtime = [ f \in files |-> 0 ]
    /\ md \in [ dirs -> { "none" } \cup DescriptionKinds ]
    /\ Cardinality({ d \in dirs : md[d] # "none" }) <= MaxDescribed
    /\ resize = FALSE
    /\ out = << >>
    /\ NotStarted
    /\ NotParsed

\* ---------------------------------------------------------------- actions

\* A mutant of discovery in build: a missing input root or an empty tree
\* gives a collection with no item and no child.
DiscoverOrEmpty ==
    LET found == IF Exists(InputRoot) THEN CollectionNew(<< >>)
                 ELSE [ tag |-> "none" ]
    IN  IF found.tag = "none"
        THEN [ tag |-> "some",
               node |-> [ path |-> InputRoot,
                          collections |-> << >>,
                          items |-> << >>,
                          metadata |-> [ ok |-> TRUE, description |-> << >>,
                                         title |-> PathToString(InputRoot),
                                         thumbnail |-> << >> ],
                          thumbnail |-> << >> ] ]
        ELSE found

\* build, up to the discovered tree: the input root must exist, and what
\* Collection::new returns for it must be a collection ("No images found"
\* otherwise).
Discover ==
    IF Exists(InputRoot) THEN CollectionNew(<< >>) ELSE [ tag |-> "err" ]


\* build, up to the spawn of display_progress: the input root is checked,
\* the tree discovered, the stale items selected and the consumer spawned.
Build ==
    /\ pc = "idle"
    /\ builds < MaxBuilds
    /\ builds' = builds + 1
    /\ pages' = << >>
    /\ wrote' = {}
    /\ chan' = << >>
    /\ sent' = 0
    /\ loopI' = 0
    /\ recvd' = 0
    /\ LET found == Discover
       IN  /\ tree' = found
           /\ IF found.tag = "some"
              THEN LET items == Selected(found.node)
                   IN  /\ submitted' = items
                       /\ work' = [ i \in 1 .. Len(items) |-> "todo" ]
                       /\ attempts' = [ i \in 1 .. Len(items) |-> 0 ]
                       /\ consumer' = "running"
                       /\ pc' = "processing"
                       /\ result' = "none"
              ELSE /\ submitted' = << >>
                   /\ work' = << >>
                   /\ attempts' = << >>
                   /\ consumer' = "none"
                   /\ pc' = "returned"
                   /\ result' = "err"
    /\ crumbs' = << >>
    /\ UNCHANGED << mdText, parsed, cfgOutput, listing, dirs, files, srcMtime, md, resize, out, clock,
                    prev, touched >>

\* process(&p) of build runs process.rs's process on the item of p: the
\* Pair is (item.from, item.to), thumb_dir the parent of item.thumbnail.
\* process, first half: generate_thumbnail.  The resize may fail (a corrupt
\* source, an unwritable destination); the failure is sent on the channel
\* and ends the call.
ProcessThumbnail(i) ==
    /\ pc = "processing"
    /\ Runnable(i)
    /\ attempts' = [ attempts EXCEPT ![i] = @ + 1 ]
    /\ LET item == submitted[i]
       IN  IF ThumbnailNeeded(item)
           THEN \E okay \in BOOLEAN :
                  IF okay
                  THEN /\ out' = WriteFile(out, item.thumbnail, ThumbWidth, ThumbHeight)
                       /\ wrote' = wrote \cup { item.thumbnail }
                       /\ work' = [ work EXCEPT ![i] = "thumbed" ]
                       /\ UNCHANGED << chan, sent >>
                  ELSE /\ work' = [ work EXCEPT ![i] = "err" ]
                       /\ chan' = Send(chan, "err")
                       /\ sent' = sent + 1
                       /\ UNCHANGED << out, wrote >>
           ELSE /\ work' = [ work EXCEPT ![i] = "thumbed" ]
                /\ UNCHANGED << out, wrote, chan, sent >>
    /\ UNCHANGED << mdText, parsed, cfgOutput, listing, crumbs, tree, dirs, files, srcMtime, md, resize, clock, pc, result, submitted,
                    consumer, loopI, recvd, pages, builds, prev, touched >>

\* process, second half: the full-size output is copied or resized, and the
\* result of the call is sent on the channel.
ProcessFull(i) ==
    /\ pc = "processing"
    /\ work[i] = "thumbed"
    /\ LET item == submitted[i]
       IN  \E okay \in BOOLEAN :
             IF okay
             THEN /\ out' = WriteFile(out, item.to, FullWidth, FullHeight)
                  /\ wrote' = wrote \cup { item.to }
                  /\ work' = [ work EXCEPT ![i] = "ok" ]
                  /\ chan' = Send(chan, "ok")
             ELSE /\ work' = [ work EXCEPT ![i] = "err" ]
                  /\ chan' = Send(chan, "err")
                  /\ UNCHANGED << out, wrote >>
    /\ sent' = sent + 1
    /\ UNCHANGED << mdText, parsed, cfgOutput, listing, crumbs, tree, dirs, files, srcMtime, md, resize, clock, pc, result, submitted,
                    attempts, consumer, loopI, recvd, pages, builds, prev, touched >>

\* build, after for_each: write_html runs and build returns its result.
Render ==
    /\ pc = "processing"
    /\ PipelineDone
    /\ LET html == WriteHtml(tree.node, << "home" >>, OutputRoot)
       IN  /\ pages' = html.pages
           /\ crumbs' = html.breadcrumbs
           /\ result' = IF html.ok THEN "ok" ELSE "err"
    /\ pc' = "returned"
    /\ UNCHANGED << mdText, parsed, cfgOutput, listing, tree, dirs, files, srcMtime, md, resize, out, clock, submitted, work,
                    attempts, chan, sent, consumer, loopI, recvd, wrote, builds,
                    prev, touched >>

\* display_progress, one iteration: receiver.recv() blocks until a message
\* arrives or every sender is dropped.
Receive ==
    /\ consumer = "running"
    /\ loopI < Len(submitted)
    /\ \/ chan # << >>
       \/ Disconnected
    /\ IF chan # << >>
       THEN /\ chan' = Tail(chan)
            /\ recvd' = recvd + 1
       ELSE UNCHANGED << chan, recvd >>
    /\ loopI' = loopI + 1
    /\ UNCHANGED << mdText, parsed, cfgOutput, listing, crumbs, tree, dirs, files, srcMtime, md, resize, out, clock, pc, result,
                    submitted, work, attempts, sent, consumer, pages, wrote, builds,
                    prev, touched >>

\* display_progress, after the loop.
Processed ==
    /\ consumer = "running"
    /\ loopI = Len(submitted)
    /\ consumer' = "finished"
    /\ UNCHANGED << mdText, parsed, cfgOutput, listing, crumbs, tree, dirs, files, srcMtime, md, resize, out, clock, pc, result,
                    submitted, work, attempts, chan, sent, loopI, recvd, pages, wrote,
                    builds, prev, touched >>

\* main returns after build: the process exits, and with it the detached
\* display_progress thread.
Exit ==
    /\ pc = "returned"
    /\ pc' = "idle"
    /\ consumer' = IF consumer = "running" THEN "killed" ELSE consumer
    /\ prev' = [ ran |-> TRUE,
                 clean |-> result = "ok" /\ \A i \in 1 .. Len(work) : work[i] = "ok",
                 pages |-> pages ]
    /\ touched' = {}
    /\ UNCHANGED << mdText, parsed, cfgOutput, listing, crumbs, tree, dirs, files, srcMtime, md, resize, out, clock, result, submitted,
                    work, attempts, chan, sent, loopI, recvd, pages, wrote, builds >>

\* Between two runs, the modification time of a source image is updated.
Touch(f) ==
    /\ pc = "idle"
    /\ prev.ran
    /\ builds < MaxBuilds
    /\ clock < MaxClock
    /\ IsImageFile(f)
    /\ clock' = clock + 1
    /\ srcMtime' = [ srcMtime EXCEPT ![f] = clock + 1 ]
    /\ touched' = touched \cup { f }
    /\ UNCHANGED << mdText, parsed, cfgOutput, listing, crumbs, tree, dirs, files, md, resize, out, pc, result, submitted, work,
                    attempts, chan, sent, consumer, loopI, recvd, pages, wrote, builds,
                    prev >>

Next ==
    \/ Build
    \/ \E i \in 1 .. Len(submitted) : ProcessThumbnail(i)
    \/ \E i \in 1 .. Len(submitted) : ProcessFull(i)
    \/ Render
    \/ Receive
    \/ Processed
    \/ Exit
    \/ \E f \in files : Touch(f)

Spec == Init /\ [][Next]_vars

\* Discovery alone, over every input tree of the bounds.
SpecDiscovery == InitDiscovery /\ [][Build]_vars

\* The modification times of a pre-existing output tree.
StaleTimes == 0 .. MaxClock + 1

\* build started on an output tree left by earlier runs and by the user: one
\* source image, whose full-size output and thumbnail are each missing or
\* of any age.
InitStale ==
    /\ cfgOutput = << "output" >>
    /\ listing = "ascending"
    /\ files = { << "x.jpg" >> }
    /\ dirs = { << >> }
    /\ srcMtime \in [ files -> StaleTimes ]
    /\ md = [ d \in dirs |-> "none" ]
    /\ resize \in BOOLEAN
    /\ LET item == ItemNew(SourcePath(<< "x.jpg" >>))
       IN  \E P \in SUBSET { item.to, item.thumbnail } :
             \E m \in [ P -> StaleTimes ] :
               out = [ q \in P |->
                        IF q = item.to
                        THEN [ mtime |-> m[q], w |-> FullWidth, h |-> FullHeight ]
                        ELSE [ mtime |-> m[q], w |-> ThumbWidth, h |-> ThumbHeight ] ]
    /\ NotStarted
    /\ NotParsed

\* The selection of stale items alone, over every such output tree.
SpecStale == InitStale /\ [][Build]_vars

\* One call of build (as the tests call it), over every input tree of the
\* bounds: discovery, the pipeline, the consumer and the rendering walk.
NextRender ==
    \/ Build
    \/ \E i \in 1 .. Len(submitted) : ProcessThumbnail(i)
    \/ \E i \in 1 .. Len(submitted) : ProcessFull(i)
    \/ Render
    \/ Receive
    \/ Processed

SpecRender == InitDiscovery /\ [][NextRender]_vars

\* The candidate files whose extension is spelt in upper or mixed case.
OddCase == { f \in FileU : Extension(FileName(f)) \in { "JPEG", "Jpg" } }

\* The inputs of discovery, with the output tree an earlier run without
\* failure has left: the full-size copy and the thumbnail of every source
\* image, as old as the sources.  The extensions are the lower-case ones.
InitUpToDate ==
    /\ cfgOutput \in OutputRoots
    /\ listing \in ListingOrders
    /\ \E D \in SUBSET DirU, F \in SUBSET (FileU \ OddCase) :
          /\ Cardinality(F) <= MaxFiles
          /\ PrefixClosed(D)
          /\ \A f \in F : Parent(f) \in D
          /\ dirs = D
          /\ files = F
    /\ srcMtime = [ f \in files |-> 0 ]
    /\ md \in [ dirs -> { "none" } \cup DescriptionKinds ]
    /\ Cardinality({ d \in dirs : md[d] # "none" }) <= MaxDescribed
    /\ resize = FALSE
    /\ LET images == { f \in files : IsImageFile(f) }
           tos == { ItemNew(SourcePath(f)).to : f \in images }
           thumbnails == { ItemNew(SourcePath(f)).thumbnail : f \in images }
       IN  out = [ q \in tos \cup thumbnails |->
                     IF q \in tos
                     THEN [ mtime |-> 0, w |-> SrcWidth, h |-> SrcHeight ]
                     ELSE [ mtime |-> 0, w |-> ThumbWidth, h |-> ThumbHeight ] ]
    /\ NotStarted
    /\ NotParsed

\* One call of build on an output tree that is up to date: no item is
\* submitted, and the rendering walk runs on what is there.
NextUpToDate ==
    \/ Build
    \/ Render
    \/ Processed

SpecUpToDate == InitUpToDate /\ [][NextUpToDate]_vars

\* Between two runs the filesystem comes to list its directories in another
\* order (read_dir gives no guarantee about the order of the entries).
Relist ==
    /\ pc = "idle"
    /\ prev.ran
    /\ builds < MaxBuilds
    /\ listing' \in ListingOrders \ { listing }
    /\ UNCHANGED << mdText, parsed, cfgOutput, crumbs, tree, dirs, files, srcMtime,
                    md, resize, out, clock, pc, result, submitted, work, attempts,
                    chan, sent, consumer, loopI, recvd, pages, wrote, builds, prev,
                    touched >>

\* The kinds of index.md of the relisted trees: a Thumbnail override, and a
\* Title that is "a", the name of another directory.
RelistKinds == { "thumbnail_y", "title_a" }

\* An up-to-date output tree as in InitUpToDate, under one output root and
\* listed in ascending order at first.
InitRelist ==
    /\ cfgOutput = << "output" >>
    /\ listing = "ascending"
    /\ \E D \in SUBSET DirU, F \in SUBSET (FileU \ OddCase) :
          /\ Cardinality(F) <= MaxFiles
          /\ PrefixClosed(D)
          /\ \A f \in F : Parent(f) \in D
          /\ dirs = D
          /\ files = F
    /\ srcMtime = [ f \in files |-> 0 ]
    /\ md \in [ dirs -> { "none" } \cup RelistKinds ]
    /\ Cardinality({ d \in dirs : md[d] # "none" }) <= MaxDescribed
    /\ resize = FALSE
    /\ LET images == { f \in files : IsImageFile(f) }
           tos == { ItemNew(SourcePath(f)).to : f \in images }
           thumbnails == { ItemNew(SourcePath(f)).thumbnail : f \in images }
       IN  out = [ q \in tos \cup thumbnails |->
                     IF q \in tos
                     THEN [ mtime |-> 0, w |-> SrcWidth, h |-> SrcHeight ]
                     ELSE [ mtime |-> 0, w |-> ThumbWidth, h |-> ThumbHeight ] ]
    /\ NotStarted
    /\ NotParsed

\* Runs of build on the same input tree, up to date, between which the
\* order of the listings may change.
NextRelist ==
    \/ Build
    \/ Render
    \/ Processed
    \/ Exit
    \/ Relist

SpecRelist == InitRelist /\ [][NextRelist]_vars

\* display_progress against every sending side: the state of build at
\* thread::spawn, where each call of process either is still to run (and
\* will send its message) or has ended without one, as process of
\* src/process.rs does.  The output tree is empty, so every image is
\* submitted.
InitProgress ==
    /\ cfgOutput = << "output" >>
    /\ listing = "ascending"
    /\ \E F \in (SUBSET ImageU) \ { {} } :
          /\ Cardinality(F) <= MaxFiles
          /\ files = F
          /\ dirs = { << >> } \cup { Parent(f) : f \in F }
    /\ srcMtime = [ f \in files |-> 0 ]
    /\ md = [ d \in dirs |-> "none" ]
    /\ resize \in BOOLEAN
    /\ out = << >>
    /\ clock = 0
    /\ pc = "processing"
    /\ result = "none"
    /\ tree = Discover
    /\ submitted = Selected(tree.node)
    /\ work \in [ 1 .. Len(submitted) -> { "todo", "err" } ]
    /\ attempts = [ i \in 1 .. Len(submitted) |-> IF work[i] = "err" THEN 1 ELSE 0 ]
    /\ chan = << >>
    /\ sent = 0
    /\ consumer = "running"
    /\ loopI = 0
    /\ recvd = 0
    /\ pages = << >>
    /\ crumbs = << >>
    /\ wrote = {}
    /\ builds = 1
    /\ prev = [ ran |-> FALSE, clean |-> FALSE, pages |-> << >> ]
    /\ touched = {}
    /\ NotParsed

\* build from thread::spawn to its return, and display_progress beside it.
NextProgress ==
    \/ \E i \in 1 .. Len(submitted) : ProcessThumbnail(i)
    \/ \E i \in 1 .. Len(submitted) : ProcessFull(i)
    \/ Render
    \/ Receive
    \/ Processed

\* ENABLED <<Render>>_vars, written out: the guard of Render, which changes
\* pc whenever it is taken.
RenderEnabled == pc = "processing" /\ PipelineDone

\* The thread of build, the workers of the pool and the thread of
\* display_progress are each scheduled again and again; nothing ends the
\* process of the caller (build is called as the tests call it).  The
\* fairness of Render is WF_vars(Render) with its ENABLED written out.
SpecProgress ==
    /\ InitProgress
    /\ [][NextProgress]_vars
    /\ WF_vars(\E i \in 1 .. Len(submitted) : ProcessThumbnail(i))
    /\ WF_vars(\E i \in 1 .. Len(submitted) : ProcessFull(i))
    /\ ([]<>(~RenderEnabled) \/ []<><<Render>>_vars)
    /\ WF_vars(Receive)
    /\ WF_vars(Processed)

\* The sequences of at most n lines of LineU.
RECURSIVE Contents(_)
Contents(n) ==
    IF n = 0 THEN { << >> }
    ELSE LET shorter == Contents(n - 1)
         IN  shorter \cup { Append(c, l) : c \in shorter, l \in LineU }

\* from_str on its own (as the tests of metadata.rs call it): a content of
\* at most MaxLines lines, for a directory that may hold the file y.jpg.
InitMetadata ==
    /\ cfgOutput = << "output" >>
    /\ listing = "ascending"
    /\ dirs = { << >> }
    /\ files \in { {}, { << "y.jpg" >> } }
    /\ srcMtime = [ f \in files |-> 0 ]
    /\ md = [ d \in dirs |-> "none" ]
    /\ resize = FALSE
    /\ out = << >>
    /\ NotStarted
    /\ mdText \in Contents(MaxLines)
    /\ parsed = [ tag |-> "none" ]

\* from_str(InputRoot, content)
Parse ==
    /\ parsed.tag = "none"
    /\ parsed' = [ tag |-> "some", metadata |-> FromStr(InputRoot, mdText) ]
    /\ UNCHANGED << mdText, cfgOutput, listing, crumbs, tree, dirs, files, srcMtime,
                    md, resize, out, clock, pc, result, submitted, work, attempts,
                    chan, sent, consumer, loopI, recvd, pages, wrote, builds, prev,
                    touched >>

SpecMetadata == InitMetadata /\ [][Parse]_vars

\* ----------------------------------------------------------------- claims

SeqToSet(q) == { q[i] : i \in 1 .. Len(q) }

\* The items of the discovered tree.
TreeItems == IF tree.tag = "some" THEN SeqToSet(Items(tree.node)) ELSE {}

\* The collections of a tree.
RECURSIVE Collections(_)
Collections(c) ==
    { c } \cup UNION { Collections(c.collections[i]) : i \in 1 .. Len(c.collections) }

\* The output directory that mirrors a collection's source directory.
MirrorDir(c) == Join(OutputRoot, StripPrefix(c.path, InputRoot))

\* The directories the current build wrote an index.html into.
PageDirs == { pages[i].dir : i \in 1 .. Len(pages) }

\* An output is stale: missing, or strictly older than its source.
Stale(output, source) == ~Exists(output) \/ Modified(output) < Modified(source)

\* The indices of the submitted items whose processing failed.
Failed == { i \in 1 .. Len(submitted) : work[i] = "err" }

\* C1: when exactly one of N >= 2 submitted items fails, leaving no full-size
\* output, and all the others succeed, build returns Ok and every collection
\* of the tree has its index.html written.
C1_OneFailureStillRenders ==
    ( /\ pc = "returned"
      /\ tree.tag = "some"
      /\ Len(submitted) >= 2
      /\ Cardinality(Failed) = 1
      /\ \A i \in Failed : ~Exists(submitted[i].to) )
    => /\ result = "ok"
       /\ PageDirs = { MirrorDir(c) : c \in Collections(tree.node) }

\* C2: build does not return (and write_html has not run) unless the
\* display_progress thread has received all num_items messages and finished.
C2_ConsumerJoinedBeforeRender ==
    (pc = "returned" /\ tree.tag = "some")
    => (consumer = "finished" /\ recvd = Len(submitted))

\* C3: an item is submitted to the pipeline exactly when its full-size output
\* is stale or its thumbnail is stale.
C3_SelectedIffStale ==
    (pc = "processing")
    => \A item \in TreeItems :
          (item \in SeqToSet(submitted))
          <=> (Stale(item.to, item.from) \/ Stale(item.thumbnail, item.from))

\* C4: no two distinct items of a tree share an output path, full-size or
\* thumbnail.
C4_NoAliasedOutputs ==
    \A i, j \in TreeItems :
        i # j => { i.to, i.thumbnail } \cap { j.to, j.thumbnail } = {}

C6_TouchRegeneratesOnlyThat ==
    ( /\ prev.ran /\ prev.clean
      /\ Cardinality(touched) = 1
      /\ pc = "returned"
      /\ Failed = {} )
    => \A f \in touched :
         LET item == ItemNew(SourcePath(f))
         IN  /\ item.to \in wrote
             /\ item.thumbnail \in wrote
             /\ \A other \in TreeItems \ { item } :
                   other.to \notin wrote /\ other.thumbnail \notin wrote

\* C7: one message is sent per submitted item, and display_progress has
\* received every one of them when it ends.
C7_EveryMessageReceived ==
    /\ (pc = "returned" /\ tree.tag = "some") => sent = Len(submitted)
    /\ consumer \in { "finished", "killed" } => recvd = Len(submitted)

\* C8: when the pipeline is through, every submitted item was attempted
\* exactly once, whatever failed, and every item that did not fail has its
\* thumbnail and its full-size output in place, neither older than the source.
C8_FailureIsolation ==
    /\ \A i \in 1 .. Len(submitted) : attempts[i] <= 1
    /\ (pc = "returned" /\ tree.tag = "some")
       => \A i \in 1 .. Len(submitted) :
            /\ attempts[i] = 1
            /\ i \notin Failed
               => /\ ~Stale(submitted[i].thumbnail, submitted[i].from)
                  /\ ~Stale(submitted[i].to, submitted[i].from)

C8_Witness ==
    /\ pc = "returned"
    /\ Len(submitted) = 2
    /\ work[1] = "err"
    /\ work[2] = "ok"
    /\ Exists(submitted[2].to)
    /\ Exists(submitted[2].thumbnail)

\* C9: once write_html has run (build has returned from a discovered tree),
\* every submitted item's process has returned: rendering never precedes or
\* overlaps the pipeline.
C9_RenderAfterPipeline ==
    (pc = "returned" /\ tree.tag = "some")
    => \A i \in 1 .. Len(submitted) : work[i] \in { "ok", "err" }

C9_Witness ==
    /\ pc = "returned"
    /\ Len(pages) >= 1
    /\ Len(submitted) = 2
    /\ \A i \in 1 .. Len(submitted) : work[i] = "ok"

\* A directory or one of its descendants directly contains an image item.
HasImage(d) ==
    \E f \in files :
        /\ IsImageFile(f)
        /\ Len(Parent(f)) >= Len(d)
        /\ SubSeq(f, 1, Len(d)) = d

\* C10: Collection::new(dir), when it returns without error, returns a node
\* exactly when dir or a descendant directory directly contains an image.
C10_NodeIffImageInSubtree ==
    (pc # "idle" /\ Exists(InputRoot))
    => \A d \in dirs :
          CollectionNew(d).tag # "err"
          => ((CollectionNew(d).tag = "some") <=> HasImage(d))

\* The directory of a collection, relative to the input root.
DirOf(c) == StripPrefix(c.path, InputRoot)

\* The position of a name in the listing of a directory.
ListedAt(d, n) == CHOOSE i \in 1 .. Len(ReadDir(d)) : ReadDir(d)[i] = n

\* The names of the images directly in a directory.
ImagesIn(d) == { FileName(f) : f \in { g \in files : Parent(g) = d /\ IsImageFile(g) } }

\* The names of the subdirectories of a directory that yield a collection.
ChildrenIn(d) ==
    { FileName(e) :
        e \in { g \in dirs : Len(g) = Len(d) + 1 /\ Parent(g) = d
                              /\ CollectionNew(g).tag = "some" } }

\* The name listed first among a nonempty set of names of a directory.
FirstListed(d, N) ==
    CHOOSE n \in N : \A m \in N : ListedAt(d, n) <= ListedAt(d, m)

\* The file the Thumbnail key of a directory's index.md names exists.
OverrideExists(d) ==
    /\ md[d] \notin { "none", "unreadable" }
    /\ ThumbnailKey(md[d]) # ""
    /\ Join(d, << ThumbnailKey(md[d]) >>) \in files \cup dirs

\* C11: the thumbnail of every collection of the tree is the file its
\* Thumbnail override names if that file exists; otherwise the source of
\* the image listed first in its directory; otherwise, with no image of its
\* own, the thumbnail of the child collection listed first.
C11_ThumbnailPriority ==
    (pc # "idle" /\ tree.tag = "some")
    => \A c \in Collections(tree.node) :
         LET d == DirOf(c)
         IN  IF OverrideExists(d)
             THEN c.thumbnail = SourcePath(Join(d, << ThumbnailKey(md[d]) >>))
             ELSE IF ImagesIn(d) # {}
             THEN c.thumbnail = SourcePath(Join(d, << FirstListed(d, ImagesIn(d)) >>))
             ELSE /\ ChildrenIn(d) # {}
                  /\ \E k \in Collections(tree.node) :
                        /\ DirOf(k) = Join(d, << FirstListed(d, ChildrenIn(d)) >>)
                        /\ c.thumbnail = k.thumbnail

\* An existing override beats two images; the listing is ascending, so the
\* overriding image is not the first item.
C11_Witness ==
    /\ pc # "idle"
    /\ tree.tag = "some"
    /\ listing = "ascending"
    /\ OverrideExists(<< >>)
    /\ Cardinality(ImagesIn(<< >>)) = 2
    /\ tree.node.thumbnail = SourcePath(<< "y.jpg" >>)
    /\ tree.node.items[1].from = SourcePath(<< "x.jpg" >>)

\* Collection::new reads the index.md of a directory: the directory holds
\* an image or a child collection.
ReadsMetadata(d) == ImagesIn(d) # {} \/ ChildrenIn(d) # {}

\* C12: when reading the index.md of some directory of the input tree, the
\* root or a nested one, fails, build returns an error, no item is processed
\* and no page is rendered.
C12_UnreadableAborts ==
    ( /\ pc # "idle"
      /\ \E d \in dirs : md[d] = "unreadable" /\ ReadsMetadata(d) )
    => /\ pc = "returned"
       /\ result = "err"
       /\ submitted = << >>
       /\ wrote = {}
       /\ pages = << >>

\* The directory a relative path designates from a directory: every ".."
\* leaves a directory, every other segment enters one.
RECURSIVE Resolve(_, _)
Resolve(dir, rel) ==
    IF rel = << >> THEN dir
    ELSE IF Head(rel) = ".." THEN Resolve(Parent(dir), Tail(rel))
    ELSE Resolve(Append(dir, Head(rel)), Tail(rel))

\* C13: for every page written, the path to the root is one ".." for each
\* segment of the page's directory but one, it leads from that directory to
\* the output root, and theme_url designates <output root>/static.
C13_ThemeUrlReachesStatic ==
    \A i \in 1 .. Len(pages) :
        LET dir == pages[i].dir
            url == pages[i].context.theme_url
            up == OutputPathToRoot(dir)
        IN  /\ Len(up) = Len(dir) - 1
            /\ \A j \in 1 .. Len(up) : up[j] = ".."
            /\ Len(dir) >= Len(up)
            /\ Resolve(dir, up) = OutputRoot
            /\ Len(dir) >= Len(url) - 1
            /\ Resolve(dir, url) = Join(OutputRoot, << "static" >>)

\* C14: the links of every page are as many as the names of the trail, with
\* the same titles in the same order, and the link at reverse-distance d from
\* the last one has the path "." followed by d segments "..".
C14_LinksMirrorTrail ==
    \A i \in 1 .. Len(pages) :
        LET names == pages[i].trail
            links == pages[i].context.breadcrumbs
            N == Len(names)
        IN  /\ Len(links) = N
            /\ \A j \in 1 .. N :
                  /\ links[j].title = names[j]
                  /\ Len(links[j].path) = 1 + (N - j)
                  /\ links[j].path[1] = "."
                  /\ \A k \in 2 .. Len(links[j].path) : links[j].path[k] = ".."

\* A page two levels below the root: a trail of three names.
C14_Witness ==
    \E i \in 1 .. Len(pages) :
        /\ Len(pages[i].trail) = 3
        /\ pages[i].context.breadcrumbs[1].path = << ".", "..", ".." >>
        /\ pages[i].context.breadcrumbs[3].path = << "." >>

\* An extension with every upper-case letter replaced by its lower-case one.
LowerCase(ext) ==
    CASE ext = "JPEG" -> "jpeg"
      [] ext = "Jpg" -> "jpg"
      [] OTHER -> ext

\* C15: a regular file of a directory becomes an Item of that directory's
\* collection exactly when its extension is jpg or jpeg in any mix of upper
\* and lower case.
C15_ExtensionAnyCase ==
    (pc # "idle")
    => \A f \in files :
         LET r == CollectionNew(Parent(f))
         IN  r.tag # "err"
             => ( ( /\ r.tag = "some"
                    /\ ItemNew(SourcePath(f)) \in SeqToSet(r.node.items) )
                  <=> LowerCase(Extension(FileName(f))) \in { "jpg", "jpeg" } )

\* C16: when the context of a page is assembled, the breadcrumbs vector is
\* "home" followed by the directory names from the root collection to the
\* page's collection, one more name than the collection is deep; and when
\* write_html has returned Ok, the vector is what it was at the call.
C16_TrailIsPathFromRoot ==
    /\ \A i \in 1 .. Len(pages) :
          LET below == StripPrefix(pages[i].dir, OutputRoot)
          IN  /\ pages[i].trail = << "home" >> \o below
              /\ Len(pages[i].trail) = Len(below) + 1
    /\ (pc = "returned" /\ result = "ok") => crumbs = << "home" >>

\* A successful walk over a root with a child and a grandchild: the child's
\* page is assembled after the grandchild's name was pushed and removed.
C16_Witness ==
    /\ pc = "returned"
    /\ result = "ok"
    /\ Len(pages) = 3
    /\ pages[1].trail = << "home", "a", "b" >>
    /\ pages[2].trail = << "home", "a" >>
    /\ pages[3].trail = << "home" >>

\* C17: in the context of every page, the images are in ascending order of
\* their thumbnail paths and the children in descending order of their
\* titles, in whatever order the directories were listed.
C17_ImagesAndChildrenSorted ==
    \A i \in 1 .. Len(pages) :
        LET images == pages[i].context.images
            children == pages[i].context.children
        IN  /\ \A j, k \in 1 .. Len(images) :
                  j < k => /\ images[j].thumbnail[1] = images[k].thumbnail[1]
                           /\ NameRank[images[j].thumbnail[2]]
                                 <= NameRank[images[k].thumbnail[2]]
            /\ \A j, k \in 1 .. Len(children) :
                  j < k => NameRank[children[j].title] >= NameRank[children[k].title]

\* Two images listed in descending order, rendered in ascending order.
C17_Witness ==
    /\ listing = "descending"
    /\ pc = "returned"
    /\ Len(pages) = 1
    /\ Len(tree.node.items) = 2
    /\ FileName(tree.node.items[1].from) = "y.jpg"
    /\ Len(pages[1].context.images) = 2
    /\ pages[1].context.images[1].path = "x.jpg"
    /\ pages[1].context.images[2].path = "y.jpg"

\* C18: when the input root does not exist, or discovery yields no
\* collection, build returns an error, and no item is processed and no
\* index.html written in that run.
C18_NothingToBuildIsAnError ==
    (pc # "idle" /\ (~Exists(InputRoot) \/ CollectionNew(<< >>).tag = "none"))
    => /\ pc = "returned"
       /\ result = "err"
       /\ submitted = << >>
       /\ wrote = {}
       /\ out = << >>
       /\ pages = << >>

\* An input root that holds files, none of them an image.
C18_Witness ==
    /\ pc = "returned"
    /\ result = "err"
    /\ Exists(InputRoot)
    /\ files # {}
    /\ CollectionNew(<< >>).tag = "none"
    /\ pages = << >>

\* C19: when build has returned, every submitted item that was processed
\* without failure has a thumbnail of the configured thumbnail size and a
\* full-size output of the configured resize size, or of the size of the
\* source when no resize is configured.
C19_OutputDimensions ==
    (pc = "returned" /\ tree.tag = "some")
    => \A i \in 1 .. Len(submitted) :
         work[i] = "ok"
         => /\ Exists(submitted[i].thumbnail)
            /\ out[submitted[i].thumbnail].w = ThumbWidth
            /\ out[submitted[i].thumbnail].h = ThumbHeight
            /\ Exists(submitted[i].to)
            /\ out[submitted[i].to].w = (IF resize THEN ResizeWidth ELSE SrcWidth)
            /\ out[submitted[i].to].h = (IF resize THEN ResizeHeight ELSE SrcHeight)

\* C20: after build returned Ok, one index.html and no more has been written
\* for every collection of the tree, into the output directory that mirrors
\* the collection's source directory, and none for a directory that
\* discovery pruned.
C20_OnePagePerCollection ==
    (pc = "returned" /\ result = "ok")
    => /\ PageDirs = { MirrorDir(c) : c \in Collections(tree.node) }
       /\ Len(pages) = Cardinality(Collections(tree.node))
       /\ \A c \in Collections(tree.node) :
             Cardinality({ i \in 1 .. Len(pages) :
                             pages[i].dir = Join(OutputRoot, DirOf(c)) }) = 1
       /\ \A d \in dirs :
             CollectionNew(d).tag = "none" => Join(OutputRoot, d) \notin PageDirs

\* A root with two child collections and a pruned empty directory.
C20_Witness ==
    /\ pc = "returned"
    /\ result = "ok"
    /\ Len(pages) = 3
    /\ Len(tree.node.collections) = 2
    /\ << "a", "b" >> \in dirs
    /\ CollectionNew(<< "a", "b" >>).tag = "none"

\* A line is a header line: letters, then ": ", then a value, and nothing
\* before the letters.
IsKeyValueLine(line) ==
    line \in { "Title: b", "Title: a", "Thumbnail: y.jpg", "Thumbnail: n.txt" }

\* The number of leading header lines of a content.
RECURSIVE LeadingRun(_)
LeadingRun(content) ==
    IF content = << >> THEN 0
    ELSE IF IsKeyValueLine(Head(content)) THEN 1 + LeadingRun(Tail(content))
    ELSE 0

\* The value the header lines give a key, the last line winning; "" if none.
RECURSIVE HeaderValue(_, _)
HeaderValue(header, key) ==
    IF header = << >> THEN ""
    ELSE LET last == Captures(header[Len(header)])
         IN  IF last.key = key THEN last.value
             ELSE HeaderValue(SubSeq(header, 1, Len(header) - 1), key)

\* C21: the keys of the metadata come from the leading run of header lines
\* and from no other line; the first line that is no header line and every
\* line after it, header-shaped or not, are the description and set no key.
C21_TwoPhaseParsing ==
    (parsed.tag = "some")
    => LET n == LeadingRun(mdText)
           header == SubSeq(mdText, 1, n)
           body == SubSeq(mdText, n + 1, Len(mdText))
           title == HeaderValue(header, "Title")
           named == HeaderValue(header, "Thumbnail")
       IN  /\ parsed.metadata.title
                = (IF title # "" THEN title ELSE PathToString(InputRoot))
           /\ parsed.metadata.thumbnail
                = (IF named # "" /\ Join(<< >>, << named >>) \in files
                   THEN SourcePath(<< named >>) ELSE << >>)
           /\ parsed.metadata.description = PushHtml(body)

\* The thumbnails the pipeline generates for a collection and all below it.
GeneratedThumbnails(c) == { it.thumbnail : it \in SeqToSet(Items(c)) }

\* C22: for every child entry of every page, the thumbnail it refers to,
\* resolved from the page's directory, is the thumbnail of an item of the
\* child collection or of a collection below it.
C22_ChildThumbnailGenerated ==
    \A i \in 1 .. Len(pages) :
        \A j \in 1 .. Len(pages[i].context.children) :
            LET child == pages[i].context.children[j]
                dir == Join(pages[i].dir, << child.path >>)
            IN  \E c \in Collections(tree.node) :
                  /\ MirrorDir(c) = dir
                  /\ Resolve(pages[i].dir, child.thumbnail)
                        \in GeneratedThumbnails(c)

\* An output exists and is not older than its source.
Fresh(output, source) == Exists(output) /\ Modified(output) >= Modified(source)

\* C23: from an empty output tree, through builds and touches of sources, at
\* every moment every source image whose full-size output exists and is not
\* older than the source has a thumbnail that exists and is not older than
\* the source.
C23_FullImpliesThumbnail ==
    \A f \in files :
        IsImageFile(f)
        => LET item == ItemNew(SourcePath(f))
           IN  Fresh(item.to, item.from) => Fresh(item.thumbnail, item.from)

\* C24: display_progress makes at most num_items receive attempts; build
\* comes to its return whatever display_progress is doing; and
\* display_progress, once started, comes to its end, also when fewer than
\* num_items messages are sent: the receive that found the channel empty
\* returns once every sender is dropped.
C24_ProgressTerminates ==
    /\ [](loopI <= Len(submitted))
    /\ (pc = "processing") ~> (pc = "returned")
    /\ (consumer = "running") ~> (consumer = "finished")

\* display_progress has ended on a channel that carried fewer messages than
\* num_items, after build returned.
C24_Witness ==
    /\ consumer = "finished"
    /\ pc = "returned"
    /\ loopI = Len(submitted)
    /\ sent < Len(submitted)
    /\ recvd = sent

\* The RenderContext written for each output directory.
Contexts(ps) ==
    { [ dir |-> ps[i].dir, context |-> ps[i].context ] : i \in 1 .. Len(ps) }

\* C25 (as claimed): a build writes, for every collection, the RenderContext
\* the build before it wrote, whatever the order of the directory listings
\* of either.
C25_ContextsAnyOrder ==
    (pc = "returned" /\ prev.ran) => Contexts(pages) = Contexts(prev.pages)

\* A RenderContext with its children taken as the sequence of their
\* titles and the set of their paths and titles: without their thumbnails
\* and without the order of two children of the same title.
ButChildThumbnails(context) ==
    [ title |-> context.title,
      description |-> context.description,
      breadcrumbs |-> context.breadcrumbs,
      images |-> context.images,
      theme_url |-> context.theme_url,
      titles |-> [ j \in 1 .. Len(context.children) |-> context.children[j].title ],
      children |-> { [ path |-> context.children[j].path,
                       title |-> context.children[j].title ] :
                         j \in 1 .. Len(context.children) } ]

\* The RenderContext written for each output directory, so reduced.
ContextsButChildThumbnails(ps) ==
    { [ dir |-> ps[i].dir, context |-> ButChildThumbnails(ps[i].context) ] :
        i \in 1 .. Len(ps) }

\* C25 (amended): a build writes, for every collection, the RenderContext
\* the build before it wrote but for the thumbnails of the children and the
\* order of children of the same title: title, description, breadcrumbs,
\* images in their order, theme_url, the paths and titles of the children
\* and the order of their titles are the same, whatever the order of the
\* directory listings of either.
C25_ContextsButChildThumbnails ==
    (pc = "returned" /\ prev.ran)
    => ContextsButChildThumbnails(pages) = ContextsButChildThumbnails(prev.pages)

\* The second build listed the directories in the other order and wrote a
\* page with two children or two images.
C25_Witness ==
    /\ pc = "returned"
    /\ prev.ran
    /\ listing = "descending"
    /\ \E i \in 1 .. Len(pages) :
          \/ Len(pages[i].context.children) = 2
          \/ Len(pages[i].context.images) = 2

====
